---- MODULE Spec2Model ----
(***************************************************************************)
(* Multiple-PDF-RAG backend: the PDFManager registry of per-document       *)
(* vector indices (backend/pdf_processor.py), the retrieval-augmented      *)
(* answering function (backend/llm_service.py) and the HTTP handlers that  *)
(* call them (backend/main.py); and the session state of the Streamlit     *)
(* frontend (frontend/app.py).                                             *)
(*                                                                         *)
(* Abstractions:                                                           *)
(*  - a uuid4 string is a fresh integer (NewPdfId); 0 is no id;            *)
(*  - a page's text is a sequence of paragraphs, each paragraph a number   *)
(*    standing for its text and, through Dist, for its embedding; the      *)
(*    splitter cuts a page into one chunk per paragraph;                   *)
(*  - a FAISS index is the record [oid, docs]: docs is the docstore in     *)
(*    insertion order, oid tells the per-document index objects (the       *)
(*    document's id) from an index built by the merge (MergedOid);         *)
(*  - an exception raised by a collaborator (file system, PDF decoder,     *)
(*    embedding model, LLM provider) is an input of the call: `fault`      *)
(*    names the step of the call at which it is raised;                    *)
(*  - the frontend is one browser session; what the backend answers to its *)
(*    requests is an input of the script run that sends them; of a chat    *)
(*    entry the messages are kept, title and timestamp are display only.   *)
(***************************************************************************)
EXTENDS Integers, Sequences, FiniteSets, TLC

\* ------------------------------------------------------------- bounds
MaxUploads == 3      \* process_pdf calls (uuid4 draws) in one run
MaxInFlight == 1     \* upload requests suspended at `await file.read()`

\* ---------------------------------------------------------- constants
TopK == 5            \* search_kwargs={"k": 5}
MergedOid == 0       \* oid of an index built by FAISS.from_documents(all_docs)
NoId == 0            \* no pdf_id (the call returned none)

\* Python's None, and a value that is not None.
None == <<>>
Some(x) == <<x>>

Sentinel == "No PDFs have been uploaded yet. Please upload at least one PDF first."
Generated == "generated"
NotPresent == "The information is not present in the uploaded PDFs."

\* The uploads a client may send: a three-page document, a one-page
\* document, a document without extractable text, an undecodable file and a
\* file that is not named *.pdf.
Files ==
  { [name |-> "a.pdf",     ext |-> ".pdf", corrupt |-> FALSE,
     pages |-> << <<1, 2>>, <<3>>, <<4>> >>],
    [name |-> "b.pdf",     ext |-> ".pdf", corrupt |-> FALSE,
     pages |-> << <<5, 2>> >>],
    [name |-> "scan.pdf",  ext |-> ".pdf", corrupt |-> FALSE,
     pages |-> << <<>> >>],
    [name |-> "bad.pdf",   ext |-> ".pdf", corrupt |-> TRUE,
     pages |-> <<>>],
    [name |-> "notes.txt", ext |-> ".txt", corrupt |-> TRUE,
     pages |-> <<>>] }

\* Steps of process_pdf at which a collaborator may raise.
ProcessFaults == {"none", "write", "load", "split", "index", "combined"}
\* remove_pdf calls one collaborator: the rebuild of the combined index.
RemoveFaults == {"none", "combined"}
\* Outcomes of the language-generation backend: an exception, or the text
\* of the message it returns.
LlmErrors == {"timeout", "auth"}
LlmTexts == {Generated, NotPresent}
LlmOutcomes == LlmErrors \cup LlmTexts
Queries == {1, 4}
PdfIds == 1..MaxUploads

VARIABLES
  documents,             \* PDFManager.documents: pdf_id -> chunks
  vectorstores,          \* PDFManager.vectorstores: pdf_id -> index
  pdf_names,             \* PDFManager.pdf_names: pdf_id -> file name
  combined_vectorstore,  \* PDFManager.combined_vectorstore: index or None
  nextId,                \* how many uuid4 values have been drawn, plus one
  pending,               \* how many uploads are suspended at `await file.read()`
  removed,               \* ids for which remove_pdf has returned True
  last,                  \* the last completed call of the backend and its outcome
  response,              \* the HTTP response of the last completed handler
  chats,                 \* st.session_state.chats: chat id -> chat entry
  current_chat_id,       \* st.session_state.current_chat_id: chat id or None
  uploaded_pdfs,         \* st.session_state.uploaded_pdfs: pdf_id -> name
  now                    \* the wall clock datetime.now() reads, in ticks

registry == <<documents, vectorstores, pdf_names, combined_vectorstore>>
backend == <<documents, vectorstores, pdf_names, combined_vectorstore,
             nextId, pending, removed, last, response>>
session_state == <<chats, current_chat_id, uploaded_pdfs>>
vars == <<backend, session_state, now>>

\* The record of a call: which function, the id it returned or was given,
\* remove_pdf's boolean, the exception it raised ("" for none), how often it
\* invoked the LLM, what it retrieved, the text it returned, and whether the
\* temporary file it created exists when it exits.
Call(op) == [op |-> op, pdf_id |-> NoId, found |-> FALSE, raised |-> "",
             llm_calls |-> 0, context |-> <<>>, text |-> "",
             tmp_exists |-> FALSE]

\* ------------------------------------------------------------ helpers
Range(s) == {s[i] : i \in DOMAIN s}

\* dict[key] = value
Put(map, key, value) == [k \in DOMAIN map \cup {key} |-> IF k = key THEN value ELSE map[k]]

\* del dict[key]
Del(map, key) == [k \in DOMAIN map \ {key} |-> map[k]]

\* The keys of a dict in insertion order: ids are drawn in increasing order
\* and a deleted key is never inserted again.
RECURSIVE KeysInOrder(_)
KeysInOrder(keys) ==
  IF keys = {} THEN <<>>
  ELSE LET k == CHOOSE x \in keys : \A y \in keys : x <= y
       IN <<k>> \o KeysInOrder(keys \ {k})

\* ----------------------------------------------------- pdf_processor.py
\* Mutant of NewPdfId: the id is the number of registered documents plus one,
\* which a removal makes repeat.
NewPdfIdByCount == Cardinality(DOMAIN pdf_names) + 1

\* str(uuid.uuid4()): a value no earlier call has returned.
NewPdfId == nextId

\* PyPDFLoader(tmp_path).load() raises on a file it cannot decode.
LoaderRaises(file, fault) == file.corrupt \/ fault = "load"

\* loader.load() followed by the metadata loop: one Document per page,
\* stamped with the upload's file name and the new id.
LoadPages(file, pdf_id) ==
  [p \in DOMAIN file.pages |->
     [paragraphs |-> file.pages[p],
      metadata |-> [source |-> file.name, pdf_id |-> pdf_id, page |-> p - 1]]]

\* The chunks of one page: each carries a copy of the page's metadata.
SplitPage(page) ==
  [i \in DOMAIN page.paragraphs |->
     [page_content |-> page.paragraphs[i], metadata |-> page.metadata]]

\* text_splitter.split_documents(pages): the chunks of the pages, in order.
RECURSIVE SplitDocuments(_)
SplitDocuments(pages) ==
  IF pages = <<>> THEN <<>>
  ELSE SplitPage(Head(pages)) \o SplitDocuments(Tail(pages))

\* FAISS.from_documents(docs, embeddings) raises IndexError on an empty list
\* (it reads embeddings[0]), or when the embedding model raises.
FaissRaises(docs, fault, step) == docs = <<>> \/ fault = step

\* FAISS.from_documents(docs, embeddings)
FaissFromDocuments(docs, oid) == [oid |-> oid, docs |-> docs]

\* all_docs of _update_combined_vectorstore: the stored chunks of every key
\* of self.documents, in the dict's order.
RECURSIVE ExtendAll(_, _)
ExtendAll(docs, keys) ==
  IF keys = <<>> THEN <<>>
  ELSE docs[Head(keys)] \o ExtendAll(docs, Tail(keys))

AllDocs(docs) == ExtendAll(docs, KeysInOrder(DOMAIN docs))

\* Whether _update_combined_vectorstore calls FAISS.from_documents.
Rebuilds(vss) == Cardinality(DOMAIN vss) >= 2

\* Mutant of UpdateCombinedVectorstore: no single-document branch, the index
\* is built from the stored chunks whenever a document is registered.
UpdateCombinedVectorstoreNoAlias(vss, docs, comb) ==
  IF DOMAIN vss = {} THEN comb
  ELSE Some(FaissFromDocuments(AllDocs(docs), MergedOid))

\* _update_combined_vectorstore: the value of self.combined_vectorstore after
\* it returns normally, `comb` being its value before.
UpdateCombinedVectorstore(vss, docs, comb) ==
  IF DOMAIN vss = {} THEN comb
  ELSE IF Cardinality(DOMAIN vss) = 1
       THEN Some(vss[CHOOSE pdf_id \in DOMAIN vss : TRUE])
       ELSE Some(FaissFromDocuments(AllDocs(docs), MergedOid))

\* get_combined_vectorstore
GetCombinedVectorstore == combined_vectorstore

\* get_pdf_name: dict.get, None for a missing key
GetPdfName(pdf_id) ==
  IF pdf_id \in DOMAIN pdf_names THEN Some(pdf_names[pdf_id]) ELSE None

\* list_pdfs: a copy of pdf_names
ListPdfs == [pdf_id \in DOMAIN pdf_names |-> pdf_names[pdf_id]]

\* Whether line 30 (tmp_path = tmp_file.name) was executed: it follows
\* tmp_file.write inside the `with` block, so a raise in the write skips it.
TmpPathBound(fault) == fault # "write"

\* Whether the file NamedTemporaryFile(delete=False) created exists after the
\* `finally` block: the block unlinks it only if tmp_path is a local.
TmpFileLeft(fault) == ~TmpPathBound(fault)

\* process_pdf(file_content, file_name). The uuid is drawn first; a raise
\* before line 52 leaves the registry alone, a raise at line 55 comes after
\* self.documents was written, a raise at line 62 after all three maps were.
ProcessPdf(file, fault) ==
  LET pdf_id == NewPdfId
      splits == SplitDocuments(LoadPages(file, pdf_id))
      docs1  == Put(documents, pdf_id, splits)
      vss1   == Put(vectorstores, pdf_id, FaissFromDocuments(splits, pdf_id))
      names1 == Put(pdf_names, pdf_id, file.name)
      exit == [Call("process_pdf") EXCEPT !.tmp_exists = TmpFileLeft(fault)]
      raise(step) == [exit EXCEPT !.raised = step]
  IN /\ nextId' = nextId + 1
     /\ UNCHANGED removed
     /\ IF fault = "write"
        THEN /\ UNCHANGED registry
             /\ last' = raise("write")
        ELSE IF LoaderRaises(file, fault)
        THEN /\ UNCHANGED registry
             /\ last' = raise("load")
        ELSE IF fault = "split"
        THEN /\ UNCHANGED registry
             /\ last' = raise("split")
        ELSE IF FaissRaises(splits, fault, "index")
        THEN /\ documents' = docs1
             /\ UNCHANGED <<vectorstores, pdf_names, combined_vectorstore>>
             /\ last' = raise("index")
        ELSE IF Rebuilds(vss1) /\ FaissRaises(AllDocs(docs1), fault, "combined")
        THEN /\ documents' = docs1
             /\ vectorstores' = vss1
             /\ pdf_names' = names1
             /\ UNCHANGED combined_vectorstore
             /\ last' = raise("combined")
        ELSE /\ documents' = docs1
             /\ vectorstores' = vss1
             /\ pdf_names' = names1
             /\ combined_vectorstore' =
                  UpdateCombinedVectorstore(vss1, docs1, combined_vectorstore)
             /\ last' = [exit EXCEPT !.pdf_id = pdf_id]

\* Mutant of RemovePdf: the deletion from self.documents is outside the
\* `if pdf_id in self.vectorstores` block.
RemovePdfDedented(pdf_id, fault) ==
  LET vss1   == Del(vectorstores, pdf_id)
      names1 == Del(pdf_names, pdf_id)
      docs1  == Del(documents, pdf_id)
      call   == [Call("remove_pdf") EXCEPT !.pdf_id = pdf_id]
  IN IF pdf_id \in DOMAIN vectorstores
     THEN /\ vectorstores' = vss1
          /\ pdf_names' = names1
          /\ documents' = docs1
          /\ IF Rebuilds(vss1) /\ FaissRaises(AllDocs(docs1), fault, "combined")
             THEN /\ UNCHANGED <<combined_vectorstore, removed>>
                  /\ last' = [call EXCEPT !.raised = "combined"]
             ELSE /\ combined_vectorstore' =
                       UpdateCombinedVectorstore(vss1, docs1, combined_vectorstore)
                  /\ removed' = removed \cup {pdf_id}
                  /\ last' = [call EXCEPT !.found = TRUE]
     ELSE /\ documents' = docs1
          /\ UNCHANGED <<vectorstores, pdf_names, combined_vectorstore, removed>>
          /\ last' = call

\* remove_pdf(pdf_id)
RemovePdf(pdf_id, fault) ==
  LET vss1   == Del(vectorstores, pdf_id)
      names1 == Del(pdf_names, pdf_id)
      docs1  == Del(documents, pdf_id)
      call   == [Call("remove_pdf") EXCEPT !.pdf_id = pdf_id]
  IN IF pdf_id \in DOMAIN vectorstores
     THEN /\ vectorstores' = vss1
          /\ pdf_names' = names1
          /\ documents' = docs1
          /\ IF Rebuilds(vss1) /\ FaissRaises(AllDocs(docs1), fault, "combined")
             THEN /\ UNCHANGED <<combined_vectorstore, removed>>
                  /\ last' = [call EXCEPT !.raised = "combined"]
             ELSE /\ combined_vectorstore' =
                       UpdateCombinedVectorstore(vss1, docs1, combined_vectorstore)
                  /\ removed' = removed \cup {pdf_id}
                  /\ last' = [call EXCEPT !.found = TRUE]
     ELSE /\ UNCHANGED <<registry, removed>>
          /\ last' = call

\* ------------------------------------------------------- llm_service.py
\* The L2 distance of a chunk's embedding from the query's.
Dist(query, doc) ==
  IF doc.page_content >= query THEN doc.page_content - query
  ELSE query - doc.page_content

\* The chunks of a docstore by increasing distance from the query, chunks at
\* equal distance in the docstore's order.
RECURSIVE SortByDistance(_, _)
SortByDistance(docs, query) ==
  IF docs = <<>> THEN <<>>
  ELSE LET n == Len(docs)
           x == docs[n]
           rest == SortByDistance(SubSeq(docs, 1, n - 1), query)
           notAfter(d) == Dist(query, d) <= Dist(query, x)
           after(d) == Dist(query, d) > Dist(query, x)
       IN SelectSeq(rest, notAfter) \o <<x>> \o SelectSeq(rest, after)

\* vectorstore.as_retriever(search_kwargs={"k": k}) applied to the query: the
\* k nearest chunks of the index, nearest first.
SimilaritySearch(vs, query, k) ==
  LET sorted == SortByDistance(vs.docs, query)
  IN SubSeq(sorted, 1, IF Len(sorted) < k THEN Len(sorted) ELSE k)

\* The message the llm step of the chain returns for a text outcome.
LlmInvoke(outcome) == [type |-> "ai", content |-> outcome]

\* StrOutputParser: the content of the message.
StrOutputParser(message) == message.content

\* Mutant of GetResponse: a failed invocation of the chain is tried once more.
GetResponseRetrying(store, query, outcome) ==
  IF store = None
  THEN [Call("get_response") EXCEPT !.text = Sentinel]
  ELSE LET context == SimilaritySearch(store[1], query, TopK)
       IN IF outcome \in LlmErrors
          THEN [Call("get_response") EXCEPT
                  !.llm_calls = 2, !.context = context, !.raised = outcome]
          ELSE [Call("get_response") EXCEPT
                  !.llm_calls = 1, !.context = context,
                  !.text = StrOutputParser(LlmInvoke(outcome))]

\* get_response(llm, query): the record of the call. `outcome` is what the
\* backend does when rag_chain.invoke reaches it; the chain is invoked once
\* and its exception is re-raised by the `except` block.
GetResponse(store, query, outcome) ==
  IF store = None
  THEN [Call("get_response") EXCEPT !.text = Sentinel]
  ELSE LET context == SimilaritySearch(store[1], query, TopK)
       IN IF outcome \in LlmErrors
          THEN [Call("get_response") EXCEPT
                  !.llm_calls = 1, !.context = context, !.raised = outcome]
          ELSE [Call("get_response") EXCEPT
                  !.llm_calls = 1, !.context = context,
                  !.text = StrOutputParser(LlmInvoke(outcome))]

\* ---------------------------------------------------------------- main.py
\* The handlers are coroutines of one event loop: a handler runs without
\* interleaving from one `await` to the next. upload_file has one await
\* (file.read()), before it calls process_pdf; the other handlers have none.
\* process_pdf, remove_pdf and get_response are synchronous calls, so each is
\* one step. Every handler wraps its body in `except Exception`, which also
\* catches the HTTPException the body raises itself, and answers 500.
EndsWithPdf(file) == file.ext = ".pdf"

\* What a handler answers: 200 when its body raised nothing, else the
\* HTTPException(status_code=500, detail=str(e)) of its `except Exception`
\* block, whatever the exception e was. `error` is str(e), "" for none.
Respond(handler, error) ==
  [handler |-> handler, status |-> IF error = "" THEN 200 ELSE 500,
   detail |-> error]

\* str(e) of the HTTPException the body of upload_file / delete_pdf raises.
NotPdfDetail == "400: Only PDF files are allowed"
NotFoundDetail == "404: PDF not found"

\* POST /upload up to `await file.read()`: the file-name check. A request
\* that passes it is suspended until its content has been read.
UploadFileBegin(file) ==
  /\ nextId + pending <= MaxUploads
  /\ UNCHANGED <<session_state, now>>
  /\ IF EndsWithPdf(file)
     THEN /\ pending < MaxInFlight
          /\ pending' = pending + 1
          /\ UNCHANGED <<registry, nextId, removed, last, response>>
     ELSE /\ response' = Respond("upload_file", NotPdfDetail)
          /\ UNCHANGED <<registry, nextId, removed, last, pending>>

\* POST /upload from the return of `await file.read()`, for one of the
\* suspended requests: process_pdf on the content read, and the response.
UploadFileEnd(file, fault) ==
  /\ pending > 0
  /\ EndsWithPdf(file)
  /\ nextId <= MaxUploads
  /\ ProcessPdf(file, fault)
  /\ pending' = pending - 1
  /\ response' = Respond("upload_file", last'.raised)
  /\ UNCHANGED <<session_state, now>>

\* DELETE /pdfs/{pdf_id}
DeletePdf(pdf_id, fault) ==
  /\ RemovePdf(pdf_id, fault)
  /\ response' = Respond("delete_pdf",
                         IF last'.raised # "" THEN last'.raised
                         ELSE IF last'.found THEN "" ELSE NotFoundDetail)
  /\ UNCHANGED <<nextId, pending, session_state, now>>

\* GET /pdfs
ListPdfsHandler ==
  /\ last' = Call("list_pdfs")
  /\ response' = Respond("list_pdfs", "")
  /\ UNCHANGED <<registry, nextId, pending, removed, session_state, now>>

\* POST /chat, had get_response dropped the index it was handed.
ChatDroppingIndex(query, outcome) ==
  /\ last' = GetResponse(GetCombinedVectorstore, query, outcome)
  /\ response' = Respond("chat", last'.raised)
  /\ combined_vectorstore' = None
  /\ UNCHANGED <<documents, vectorstores, pdf_names, nextId, pending, removed,
                 session_state, now>>

\* POST /chat
Chat(query, outcome) ==
  /\ last' = GetResponse(GetCombinedVectorstore, query, outcome)
  /\ response' = Respond("chat", last'.raised)
  /\ UNCHANGED <<registry, nextId, pending, removed, session_state, now>>

\* ------------------------------------------------------- specification
\* pdf_manager = PDFManager(); initialize_session_state()
Init ==
  /\ documents = <<>>
  /\ vectorstores = <<>>
  /\ pdf_names = <<>>
  /\ combined_vectorstore = None
  /\ nextId = 1
  /\ pending = 0
  /\ removed = {}
  /\ last = Call("init")
  /\ response = Respond("init", "")
  /\ chats = <<>>
  /\ current_chat_id = None
  /\ uploaded_pdfs = <<>>
  /\ now = 0

Next ==
  \/ \E file \in Files : UploadFileBegin(file)
  \/ \E file \in Files, fault \in ProcessFaults : UploadFileEnd(file, fault)
  \/ \E pdf_id \in PdfIds, fault \in RemoveFaults : DeletePdf(pdf_id, fault)
  \/ ListPdfsHandler
  \/ \E query \in Queries, outcome \in LlmOutcomes : Chat(query, outcome)

Spec == Init /\ [][Next]_vars

\* ------------------------------------------------- frontend/app.py
\* bounds: the last tick of the clock, and the longest chat
MaxClock == 3
MaxMessages == 2

\* datetime.now() has a finer resolution than the second the chat id keeps
TicksPerSecond == 2

\* datetime.now().strftime("%Y%m%d_%H%M%S")
Strftime(t) == t \div TicksPerSecond

\* The name the backend holds for an id: pdf_names[pdf_id] is written once,
\* so every answer of the backend shows the same name for the same id.
PdfNameOf(pdf_id) == IF pdf_id % 2 = 1 THEN "a.pdf" ELSE "b.pdf"

\* What GET /pdfs may answer.
ListResponses ==
  {[status |-> 200, pdfs |-> [pdf_id \in ids |-> PdfNameOf(pdf_id)]] :
     ids \in SUBSET PdfIds}
  \cup {[status |-> 500, pdfs |-> <<>>]}

\* What POST /upload may answer for one file.
UploadResponses ==
  {[status |-> 200, pdf_id |-> pdf_id, pdf_name |-> PdfNameOf(pdf_id)] :
     pdf_id \in PdfIds}
  \cup {[status |-> 500, pdf_id |-> NoId, pdf_name |-> ""]}

\* The answers to the files of one use of the uploader: one file, or two.
UploadBatches ==
  {<<r>> : r \in UploadResponses}
  \cup {<<r1, r2>> : r1 \in UploadResponses, r2 \in UploadResponses}

\* What DELETE /pdfs/{pdf_id} may answer.
DeleteStatuses == {200, 500}

\* What POST /chat may answer.
ChatResponses ==
  {[status |-> 200, response |-> text] : text \in LlmTexts}
  \cup {[status |-> 500, response |-> ""]}

ChatInputs == {"What do the PDFs say?"}
ApiKeys == {"", "key"}

\* fetch_pdfs_from_backend(): the cache after it
FetchPdfsFromBackend(resp) ==
  IF resp.status = 200 THEN resp.pdfs ELSE uploaded_pdfs

\* The "Uploaded PDFs" section of a script run that no PDF button stops:
\* an empty cache is fetched anew.
SidebarPdfs(resp) ==
  IF DOMAIN uploaded_pdfs = {} THEN FetchPdfsFromBackend(resp)
  ELSE uploaded_pdfs

\* The caches a script run can have when it leaves that section.
SidebarCaches == {SidebarPdfs(resp) : resp \in ListResponses}

\* create_new_chat(), called with the cache `pdfs`: the session state it
\* leaves and what it returns.
CreateNewChat(pdfs) ==
  LET chat_id == Strftime(now)
      pdf_count == Cardinality(DOMAIN pdfs)
  IN  IF pdf_count = 0
      THEN [chats |-> chats, current_chat_id |-> current_chat_id,
            result |-> None]
      ELSE [chats |-> Put(chats, chat_id, [messages |-> <<>>]),
            current_chat_id |-> Some(chat_id),
            result |-> Some(chat_id)]

\* The upload loop: the cache after the answers of `batch`.
RECURSIVE UploadLoop(_, _)
UploadLoop(pdfs, batch) ==
  IF batch = <<>> THEN pdfs
  ELSE LET r == Head(batch)
       IN  UploadLoop(IF r.status = 200 THEN Put(pdfs, r.pdf_id, r.pdf_name)
                      ELSE pdfs,
                      Tail(batch))

ProcessedFiles(batch) ==
  Cardinality({i \in DOMAIN batch : batch[i].status = 200})

\* Time passes.
Tick ==
  /\ now < MaxClock
  /\ now' = now + 1
  /\ UNCHANGED <<backend, session_state>>

\* "New Chat": start_new_chat()
StartNewChat ==
  /\ current_chat_id' = None
  /\ UNCHANGED <<backend, chats, uploaded_pdfs, now>>

\* "Refresh PDFs"
RefreshPdfs(resp) ==
  /\ uploaded_pdfs' = FetchPdfsFromBackend(resp)
  /\ UNCHANGED <<backend, chats, current_chat_id, now>>

\* A script run without an event, as after st.rerun().
Rerun(resp) ==
  /\ uploaded_pdfs' = SidebarPdfs(resp)
  /\ UNCHANGED <<backend, chats, current_chat_id, now>>

\* The delete button of a cached PDF.
DeletePdfButton(pdf_id, status, resp) ==
  /\ pdf_id \in DOMAIN uploaded_pdfs
  /\ uploaded_pdfs' = IF status = 200 THEN FetchPdfsFromBackend(resp)
                      ELSE uploaded_pdfs
  /\ UNCHANGED <<backend, chats, current_chat_id, now>>

\* The actions below are script runs that pass the "Uploaded PDFs" section;
\* `pdfs` is the cache they leave it with.

\* The button of a chat in the history: select it.
SelectChat(chat_id, pdfs) ==
  /\ chat_id \in DOMAIN chats
  /\ uploaded_pdfs' = pdfs
  /\ current_chat_id' = Some(chat_id)
  /\ UNCHANGED <<backend, chats, now>>

\* The delete button of a chat, had it left current_chat_id alone.
DeleteChatKeepingCurrent(chat_id, pdfs) ==
  /\ chat_id \in DOMAIN chats
  /\ uploaded_pdfs' = pdfs
  /\ chats' = Del(chats, chat_id)
  /\ UNCHANGED <<backend, current_chat_id, now>>

\* The delete button of a chat in the history.
DeleteChat(chat_id, pdfs) ==
  /\ chat_id \in DOMAIN chats
  /\ uploaded_pdfs' = pdfs
  /\ chats' = Del(chats, chat_id)
  /\ current_chat_id' = IF Some(chat_id) = current_chat_id THEN None
                        ELSE current_chat_id
  /\ UNCHANGED <<backend, now>>

\* Files in the uploader while no chat is active.
UploadFiles(batch, pdfs) ==
  /\ current_chat_id = None
  /\ LET uploaded == UploadLoop(pdfs, batch)
         created == CreateNewChat(uploaded)
     IN  /\ uploaded_pdfs' = uploaded
         /\ IF ProcessedFiles(batch) > 0
            THEN /\ chats' = created.chats
                 /\ current_chat_id' = created.current_chat_id
            ELSE UNCHANGED <<chats, current_chat_id>>
  /\ UNCHANGED <<backend, now>>

\* "Start a new chat with all PDFs"
StartChatButton(pdfs) ==
  /\ current_chat_id = None
  /\ LET created == CreateNewChat(pdfs)
     IN  /\ DOMAIN pdfs # {}
         /\ uploaded_pdfs' = pdfs
         /\ chats' = created.chats
         /\ current_chat_id' = created.current_chat_id
  /\ UNCHANGED <<backend, now>>

\* A question typed into the active chat.
ChatInput(query, api_key, reply, pdfs) ==
  /\ current_chat_id # None
  /\ uploaded_pdfs' = pdfs
  /\ LET chat_id == current_chat_id[1]
         current_chat == chats[chat_id]
         asked == Append(current_chat.messages,
                         [role |-> "user", content |-> query])
         answered == IF reply.status = 200
                     THEN Append(asked, [role |-> "assistant",
                                         content |-> reply.response])
                     ELSE asked
     IN  IF api_key = ""
         THEN UNCHANGED chats
         ELSE /\ Len(current_chat.messages) + 2 <= MaxMessages
              /\ chats' = Put(chats, chat_id, [messages |-> answered])
  /\ UNCHANGED <<backend, current_chat_id, now>>

FrontNext ==
  \/ Tick
  \/ StartNewChat
  \/ \E resp \in ListResponses : RefreshPdfs(resp)
  \/ \E resp \in ListResponses : Rerun(resp)
  \/ \E pdf_id \in PdfIds, status \in DeleteStatuses, resp \in ListResponses :
       DeletePdfButton(pdf_id, status, resp)
  \/ \E chat_id \in DOMAIN chats, pdfs \in SidebarCaches :
       SelectChat(chat_id, pdfs)
  \/ \E chat_id \in DOMAIN chats, pdfs \in SidebarCaches :
       DeleteChat(chat_id, pdfs)
  \/ \E batch \in UploadBatches, pdfs \in SidebarCaches :
       UploadFiles(batch, pdfs)
  \/ \E pdfs \in SidebarCaches : StartChatButton(pdfs)
  \/ \E query \in ChatInputs, api_key \in ApiKeys, reply \in ChatResponses,
        pdfs \in SidebarCaches : ChatInput(query, api_key, reply, pdfs)

FrontSpec == Init /\ [][FrontNext]_vars

\* ------------------------------------------------------------- claims
\* The ids list_pdfs shows: the registered documents.
Registered == DOMAIN ListPdfs

\* The chunks an index holds; none for None.
IndexedDocs(store) == IF store = None THEN {} ELSE Range(store[1].docs)

\* The ids of the documents an index holds chunks of.
IndexedIds(store) == {d.metadata.pdf_id : d \in IndexedDocs(store)}

\* The stored chunks of the registered documents.
RegisteredDocs == UNION {Range(documents[pdf_id]) : pdf_id \in Registered}

\* A step that is a call of process_pdf / of remove_pdf.
ProcessPdfStep == \E file \in Files, fault \in ProcessFaults : UploadFileEnd(file, fault)
RemovePdfStep(pdf_id) == \E fault \in RemoveFaults : DeletePdf(pdf_id, fault)

\* C1: after every sequence of process_pdf and remove_pdf calls the chunks
\* held by the combined vectorstore are exactly the stored chunks of the
\* registered documents.
C1_CombinedEqualsUnion ==
  IndexedDocs(combined_vectorstore) = RegisteredDocs

\* C2: with zero documents registered get_combined_vectorstore returns None
\* and get_response returns the sentinel, without calling the LLM and
\* without raising.
C2_EmptyRegistryGivesSentinel ==
  Registered = {} =>
    /\ GetCombinedVectorstore = None
    /\ \A query \in Queries, outcome \in LlmOutcomes :
         LET r == GetResponse(GetCombinedVectorstore, query, outcome)
         IN r.text = Sentinel /\ r.llm_calls = 0 /\ r.raised = ""

\* C3: a process_pdf call that raises leaves documents, vectorstores,
\* pdf_names and combined_vectorstore as they were before the call.
C3_FailedProcessPdfKeepsRegistry ==
  [][(ProcessPdfStep /\ last'.raised # "") => UNCHANGED registry]_vars

\* C4: under concurrent uploads and deletions, once no request is in flight
\* the combined index holds the chunks of the registered documents and of no
\* other.
C4_QuiescentRegistryConsistent ==
  pending = 0 =>
    /\ IndexedDocs(combined_vectorstore) \subseteq RegisteredDocs
    /\ RegisteredDocs \subseteq IndexedDocs(combined_vectorstore)

\* C5: what list_pdfs and get_response can read while an upload is in flight
\* agrees: the ids listed are the ids of the documents in the combined index.
C5_ReadersSeeAgreeingMembership ==
  pending > 0 => DOMAIN ListPdfs = IndexedIds(GetCombinedVectorstore)

\* C6: remove_pdf of an id that is not registered returns False and changes
\* nothing of the registry, in whatever state it is called.
C6_RemoveUnknownIsNoOp ==
  [][\A pdf_id \in PdfIds :
       (RemovePdfStep(pdf_id) /\ pdf_id \notin DOMAIN vectorstores) =>
         /\ last'.op = "remove_pdf" /\ last'.pdf_id = pdf_id
         /\ ~last'.found /\ last'.raised = ""
         /\ UNCHANGED registry]_vars

\* C6 witness: a second removal of a removed id, a miss, on a registry that
\* holds a document and the chunks of an upload that failed.
C6_Witness ==
  /\ last.op = "remove_pdf" /\ ~last.found /\ last.raised = ""
  /\ last.pdf_id \in removed
  /\ Registered # {}
  /\ DOMAIN documents # DOMAIN vectorstores

\* C7: with exactly one document registered the combined vectorstore is that
\* document's own vectorstore, and a query against either returns the same
\* top-K chunks.
C7_SingleDocumentAliases ==
  \A pdf_id \in PdfIds :
    DOMAIN vectorstores = {pdf_id} =>
      /\ combined_vectorstore = Some(vectorstores[pdf_id])
      /\ \A query \in Queries :
           SimilaritySearch(combined_vectorstore[1], query, TopK)
             = SimilaritySearch(vectorstores[pdf_id], query, TopK)

\* C7 witness: one document left after a removal from two.
C7_Witness ==
  /\ Cardinality(DOMAIN vectorstores) = 1
  /\ last.op = "remove_pdf" /\ last.found
  /\ combined_vectorstore # None /\ combined_vectorstore[1].oid # MergedOid

\* C8: once remove_pdf(id) has returned True no get_response call retrieves
\* a chunk whose pdf_id is id.
C8_RemovedNeverRetrieved ==
  \A pdf_id \in removed, query \in Queries :
    \A d \in Range(GetResponse(GetCombinedVectorstore, query, Generated).context) :
      d.metadata.pdf_id # pdf_id

\* C9: list_pdfs is exactly the map id -> name of the documents added with
\* success and not removed since: a successful process_pdf adds its entry, a
\* remove_pdf returning True drops its entry, no other call changes it; and
\* get_pdf_name agrees with it on every id.
C9_ListingTracksSuccessfulCalls ==
  [][/\ \A file \in Files, fault \in ProcessFaults :
          UploadFileEnd(file, fault) =>
            ListPdfs' = IF last'.raised = ""
                        THEN Put(ListPdfs, last'.pdf_id, file.name)
                        ELSE ListPdfs
     /\ \A pdf_id \in PdfIds :
          RemovePdfStep(pdf_id) =>
            ListPdfs' = IF last'.found THEN Del(ListPdfs, pdf_id) ELSE ListPdfs
     /\ (~ProcessPdfStep /\ \A pdf_id \in PdfIds : ~RemovePdfStep(pdf_id)) =>
          ListPdfs' = ListPdfs
     /\ \A pdf_id \in PdfIds :
          GetPdfName(pdf_id)' = IF pdf_id \in DOMAIN ListPdfs'
                                THEN Some(ListPdfs'[pdf_id]) ELSE None]_vars

\* C10: a successful process_pdf returns an id that is not registered, and
\* leaves the name, the chunks and the vectorstore of every registered
\* document as they were.
C10_ProcessPdfFreshIdKeepsOthers ==
  [][(ProcessPdfStep /\ last'.raised = "") =>
       /\ last'.pdf_id \notin DOMAIN pdf_names \cup DOMAIN vectorstores
                               \cup DOMAIN documents
       /\ \A pdf_id \in DOMAIN pdf_names :
            /\ pdf_id \in DOMAIN pdf_names' /\ pdf_names'[pdf_id] = pdf_names[pdf_id]
            /\ pdf_id \in DOMAIN documents' /\ documents'[pdf_id] = documents[pdf_id]
            /\ pdf_id \in DOMAIN vectorstores'
            /\ vectorstores'[pdf_id] = vectorstores[pdf_id]]_vars

\* C10 witness: a successful upload into a registry that held documents.
C10_Witness ==
  /\ last.op = "process_pdf" /\ last.raised = ""
  /\ Cardinality(Registered) >= 2


\* C11: the temporary file process_pdf creates does not exist when
\* process_pdf exits, whether it returns or raises, at whatever step.
C11_TempFileGoneAtExit ==
  [][ProcessPdfStep => ~last'.tmp_exists]_vars


C13_TimeoutIsDistinguished ==
  (response.handler = "chat" /\ last.op = "get_response"
     /\ last.raised = "timeout") =>
    \A other \in LlmErrors \ {"timeout"} :
      response.status # Respond("chat", other).status


\* C14: DELETE /pdfs/{id} answers 200 for a registered id and 404 for an id
\* that is not registered, never 500.
C14_DeleteUnknownIsNotFound ==
  (response.handler = "delete_pdf" /\ last.op = "remove_pdf"
     /\ last.raised = "") =>
    response.status = IF last.found THEN 200 ELSE 404

\* C15: every chunk stored under id d carries pdf_id d and, as source, the
\* name registered for d; and every chunk of the combined index names a
\* registered document.
C15_ChunksNameTheirDocument ==
  /\ \A d \in DOMAIN documents : \A c \in Range(documents[d]) :
       /\ c.metadata.pdf_id = d
       /\ GetPdfName(d) = Some(c.metadata.source)
  /\ \A c \in IndexedDocs(combined_vectorstore) :
       c.metadata.pdf_id \in Registered

\* C16: POST /upload of a file not named *.pdf is answered 400, without a
\* call of process_pdf and without a change of the registry.
C16_NonPdfRejectedWith400 ==
  [][\A file \in Files :
       (~EndsWithPdf(file) /\ UploadFileBegin(file)) =>
         /\ response'.status = 400
         /\ UNCHANGED <<registry, nextId, last>>]_vars

\* C17: between operations the three maps have the same keys, also after a
\* process_pdf that failed part-way.
C17_MapsShareKeys ==
  /\ DOMAIN vectorstores = DOMAIN pdf_names
  /\ DOMAIN pdf_names = DOMAIN documents


\* A step of one of the reading entry points: GET /pdfs (list_pdfs) or
\* POST /chat (get_combined_vectorstore, get_response). These are the steps
\* that answer for one of the two handlers with no upload suspended or
\* resumed.
ReadStep ==
  /\ response'.handler \in {"list_pdfs", "chat"}
  /\ last'.op \in {"list_pdfs", "get_response"}
  /\ pending' = pending

\* C18: get_response, list_pdfs, get_pdf_name and get_combined_vectorstore
\* read only: no call of them changes a registry map or the combined index.
C18_ReadersChangeNothing ==
  [][ReadStep => UNCHANGED registry]_vars

C18_Witness ==
  /\ last.op = "get_response" /\ response.handler = "chat"
  /\ last.raised = "" /\ last.text = Generated
  /\ Cardinality(Registered) >= 2


\* C19: current_chat_id is None or a key of chats, whatever chats were
\* created, left, selected and deleted; the active-chat view finds its chat.
C19_CurrentChatExists ==
  current_chat_id # None => current_chat_id[1] \in DOMAIN chats

C19_Witness ==
  /\ current_chat_id # None
  /\ \E chat_id \in DOMAIN chats : chat_id > current_chat_id[1]
  /\ Len(chats[current_chat_id[1]].messages) > 0

\* C20: create_new_chat with a PDF in the cache adds an entry under an id
\* that chats did not have and leaves every other entry as it was; with no
\* PDF in the cache it returns None and changes neither chats nor
\* current_chat_id. (Both calls of create_new_chat are made while no chat
\* is active.)
C20_CreateNewChatAddsFreshEntry ==
  current_chat_id = None =>
  LET created == CreateNewChat(uploaded_pdfs)
  IN  IF DOMAIN uploaded_pdfs # {}
      THEN /\ created.result # None
           /\ created.result[1] \notin DOMAIN chats
           /\ DOMAIN created.chats = DOMAIN chats \cup {created.result[1]}
           /\ \A chat_id \in DOMAIN chats :
                created.chats[chat_id] = chats[chat_id]
      ELSE /\ created.result = None
           /\ created.chats = chats
           /\ created.current_chat_id = current_chat_id

====
